---- MODULE Spec2Model ----
(***************************************************************************)
(* SamplableSet: the Python wrapper (src/SamplableSet/_wrapper.py) around  *)
(* the compiled composition-rejection engine (_SamplableSetCR).  The       *)
(* wrapper is modelled from its source; the engine, which is not part of   *)
(* the Python sources, is modelled from the design document (spec.md       *)
(* sections 3 and 4).  Weights are integers in units of an arbitrary       *)
(* quantum, so sums are exact.                                             *)
(***************************************************************************)
EXTENDS Integers, Sequences, FiniteSets, TLC

VARIABLES
    obj,            \* "none" until a constructor call has returned, then "live"
    min_weight,     \* self.min_weight of the wrapper
    max_weight,     \* self.max_weight of the wrapper
    samplable_set,  \* self._samplable_set: the engine object
    gen,            \* the generator object returned by the last sample(n_samples # 1)
    call,           \* the last call made on the object
    result,         \* what that call returned or raised
    pre,            \* the engine object as it was when that call was made
    copied,         \* the object the last copy() returned
    atcall          \* the keys stored when the generator `gen` was made

vars == <<obj, min_weight, max_weight, samplable_set, gen, call, result, pre,
          copied, atcall>>

----------------------------------------------------------------------------
(* Bounds of the model *)

\* integer keys 1..NumIntKeys
NumIntKeys == 2
\* the largest upper weight bound a container is constructed with
MaxW == 3
\* the largest n_samples passed to sample()
MaxSamples == 2

\* float('inf'), above every finite weight of the model
Infinity == 1000

----------------------------------------------------------------------------
(* Values *)

IntKeys  == {[tag |-> "int",  id |-> i] : i \in 1..NumIntKeys}
EdgeKeys == {[tag |-> "edge", id |-> 1]}
Keys     == IntKeys \cup EdgeKeys
NoKey    == [tag |-> "none", id |-> 0]

\* the weights a caller passes: below, inside and above every configured range
Weights == 0..(MaxW + 1)
\* the bounds a caller constructs a container with
MinChoices == {-1, 0, 1, 2}
MaxChoices == {1, MaxW, Infinity}

None        == [type |-> "None"]
Raise(e)    == [type |-> "raise", exc |-> e]
Value(v)    == [type |-> "value", v |-> v]
Bool(b)     == [type |-> "bool", b |-> b]
Pair(k, w)  == [type |-> "pair", key |-> k, weight |-> w]
Generator   == [type |-> "generator"]
Object(c)   == [type |-> "object", class |-> c]

Out(e, r)   == [eng |-> e, ret |-> r]

----------------------------------------------------------------------------
(* The engine (_SamplableSetCR), from the design document *)

IsFinite(x) == x # Infinity

RECURSIVE FloorLog2Ratio(_, _)
\* floor(log2(w / m)) for w >= m > 0, and 0 below m
FloorLog2Ratio(w, m) == IF w < 2 * m THEN 0 ELSE 1 + FloorLog2Ratio(w, 2 * m)

RECURSIVE CeilLog2Ratio(_, _)
\* ceil(log2(M / m)) for M >= m > 0
CeilLog2Ratio(M, m) == IF M <= m THEN 0 ELSE 1 + CeilLog2Ratio(M, 2 * m)

num_buckets(minw, maxw) == CeilLog2Ratio(maxw, minw) + 1

clamp(x, lo, hi) == IF x < lo THEN lo ELSE IF x > hi THEN hi ELSE x

\* a bucket id rounded up instead of down
bucket_for_Ceil(e, w) ==
    clamp(CeilLog2Ratio(w, e.min_weight), 0, num_buckets(e.min_weight, e.max_weight) - 1)

bucket_for(e, w) ==
    clamp(FloorLog2Ratio(w, e.min_weight), 0, num_buckets(e.min_weight, e.max_weight) - 1)

\* the engine object no constructor has produced yet
NoEngine ==
    [kind |-> "none", min_weight |-> 0, max_weight |-> 0, buckets |-> <<>>,
     sums |-> <<>>, total |-> 0, n |-> 0, index |-> <<>>]

ValidBounds(minw, maxw) == 0 < minw /\ minw < maxw /\ IsFinite(maxw)

\* new(min_weight, max_weight): an empty engine of element type `kind`
EngNew(kind, minw, maxw) ==
    IF ~ValidBounds(minw, maxw)
    THEN Out(NoEngine, Raise("RangeError"))
    ELSE Out([kind |-> kind, min_weight |-> minw, max_weight |-> maxw,
              buckets |-> [b \in 1..num_buckets(minw, maxw) |-> <<>>],
              sums |-> [b \in 1..num_buckets(minw, maxw) |-> 0],
              total |-> 0, n |-> 0, index |-> <<>>],
             None)

Live(e) == DOMAIN e.index

KeyMatches(e, k) == k.tag = e.kind

EntryOf(e, k) == e.buckets[e.index[k].b][e.index[k].slot]

EngSize(e) == Out(e, Value(e.n))

EngTotalWeight(e) == Out(e, Value(e.total))

EngCount(e, k) ==
    IF ~KeyMatches(e, k) THEN Out(e, Raise("TypeError"))
    ELSE IF k \in Live(e) THEN Out(e, Value(EntryOf(e, k).weight))
    ELSE Out(e, None)

\* BucketTable.insert + KeyIndex update; b is 1-based here
TableInsert(e, k, w) ==
    LET b == bucket_for(e, w) + 1
    IN [e EXCEPT !.buckets[b] = Append(@, [key |-> k, weight |-> w]),
                 !.sums[b] = @ + w,
                 !.total = @ + w,
                 !.n = @ + 1,
                 !.index = (k :> [b |-> b, slot |-> Len(e.buckets[b]) + 1]) @@ @]

\* a removal that leaves the bucket's sum as it was
TableRemove_KeepsSum(e, k) ==
    LET b     == e.index[k].b
        slot  == e.index[k].slot
        old   == e.buckets[b]
        last  == old[Len(old)]
        w     == old[slot].weight
        short == SubSeq(old, 1, Len(old) - 1)
        moved == IF slot = Len(old) THEN short ELSE [short EXCEPT ![slot] = last]
        idx   == [x \in Live(e) \ {k} |->
                     IF x = last.key THEN [b |-> b, slot |-> slot] ELSE e.index[x]]
    IN [e EXCEPT !.buckets[b] = moved,
                 !.total = @ - w,
                 !.n = @ - 1,
                 !.index = idx]

\* a removal that forgets to record the new slot of the entry it moved
TableRemove_StaleIndex(e, k) ==
    LET b     == e.index[k].b
        slot  == e.index[k].slot
        old   == e.buckets[b]
        last  == old[Len(old)]
        w     == old[slot].weight
        short == SubSeq(old, 1, Len(old) - 1)
        moved == IF slot = Len(old) THEN short ELSE [short EXCEPT ![slot] = last]
        idx   == [x \in Live(e) \ {k} |-> e.index[x]]
    IN [e EXCEPT !.buckets[b] = moved,
                 !.sums[b] = @ - w,
                 !.total = @ - w,
                 !.n = @ - 1,
                 !.index = idx]

\* BucketTable.remove: swap the last live entry into the freed slot
TableRemove(e, k) ==
    LET b     == e.index[k].b
        slot  == e.index[k].slot
        old   == e.buckets[b]
        last  == old[Len(old)]
        w     == old[slot].weight
        short == SubSeq(old, 1, Len(old) - 1)
        moved == IF slot = Len(old) THEN short ELSE [short EXCEPT ![slot] = last]
        idx   == [x \in Live(e) \ {k} |->
                     IF x = last.key THEN [b |-> b, slot |-> slot] ELSE e.index[x]]
    IN [e EXCEPT !.buckets[b] = moved,
                 !.sums[b] = @ - w,
                 !.total = @ - w,
                 !.n = @ - 1,
                 !.index = idx]

InBounds(e, w) == e.min_weight <= w /\ w <= e.max_weight

EngInsert(e, k, w) ==
    IF ~KeyMatches(e, k) THEN Out(e, Raise("TypeError"))
    ELSE IF ~InBounds(e, w) THEN Out(e, Raise("RangeError"))
    ELSE IF k \in Live(e) THEN Out(e, Raise("DuplicateKeyError"))
    ELSE Out(TableInsert(e, k, w), None)

EngErase(e, k) ==
    IF ~KeyMatches(e, k) THEN Out(e, Raise("TypeError"))
    ELSE IF k \notin Live(e) THEN Out(e, Raise("KeyNotFoundError"))
    ELSE Out(TableRemove(e, k), None)

EngSetWeight(e, k, w) ==
    IF ~KeyMatches(e, k) THEN Out(e, Raise("TypeError"))
    ELSE IF ~InBounds(e, w) THEN Out(e, Raise("RangeError"))
    ELSE IF k \notin Live(e) THEN Out(e, Raise("KeyNotFoundError"))
    ELSE IF bucket_for(e, w) + 1 = e.index[k].b
    THEN LET b == e.index[k].b
             slot == e.index[k].slot
             w0 == EntryOf(e, k).weight
         IN Out([e EXCEPT !.buckets[b][slot].weight = w,
                          !.sums[b] = @ - w0 + w,
                          !.total = @ - w0 + w],
                None)
    ELSE Out(TableInsert(TableRemove(e, k), k, w), None)

\* what one sample() may return: any live entry (every weight is positive), or
\* the empty sentinel when nothing is stored
EngSampleResults(e) ==
    IF e.n = 0 THEN {None}
    ELSE {Pair(e.buckets[b][i].key, e.buckets[b][i].weight) :
             <<b, i>> \in {p \in (DOMAIN e.buckets) \X (1..e.n) :
                              p[2] <= Len(e.buckets[p[1]])}}

----------------------------------------------------------------------------
(* The wrapper class SamplableSet *)

template_classes == [int |-> "int", edge |-> "edge"]

CppTypes == {"int", "edge", "str"}

\* the engine methods __init__ copies onto the wrapper object
BoundMethods == {"size", "total_weight", "count", "insert", "set_weight", "erase"}

\* elements_weights of __init__: nothing, a dict, a pair of two iterables
\* (elements, weights), such a pair whose weights are one short, or an iterable
\* of (element, weight) pairs; items lists the (element, weight) pairs meant
NoElements == [form |-> "none", items |-> <<>>]

BulkWeights == {2, MaxW + 1}

ItemSeqs ==
    {<<<<k, w>>>> : k \in Keys, w \in BulkWeights}
    \cup {<<<<p[1], 2>>, <<p[2], w2>>>> :
             p \in {q \in Keys \X Keys : q[1] # q[2]}, w2 \in BulkWeights}

ElementsWeights ==
    {NoElements}
    \cup {[form |-> f, items |-> it] :
             f \in {"dict", "two", "two_short", "pairs"}, it \in ItemSeqs}

NoCall == [op |-> "none", on |-> "self", key |-> NoKey, weight |-> 0, n |-> 0,
           replace |-> "unset", min |-> 0, max |-> 0, seed |-> "None",
           cpp_type |-> "int", elements_weights |-> NoElements]

Seeds == {"None", "given"}

NoGen == [active |-> FALSE, n |-> 0, yielded |-> 0]

\* no copy() made yet
NoCopy == [class |-> "none", eng |-> NoEngine]

\* the constructor of the engine class; the seed only fixes the random stream,
\* which the model leaves open
EngNewSeeded(kind, minw, maxw, seed) == EngNew(kind, minw, maxw)

\* the seeded branch with the two bounds passed in the wrong order
init_SwappedBounds(minw, maxw, seed, cpp_type) ==
    IF cpp_type \notin DOMAIN template_classes
    THEN Out(NoEngine, Raise("KeyError"))
    ELSE IF seed = "None"
    THEN EngNew(template_classes[cpp_type], minw, maxw)
    ELSE EngNewSeeded(template_classes[cpp_type], maxw, minw, seed)

\* __init__(min_weight, max_weight, seed=seed, cpp_type=cpp_type), no elements_weights
init(minw, maxw, seed, cpp_type) ==
    IF cpp_type \notin DOMAIN template_classes
    THEN Out(NoEngine, Raise("KeyError"))
    ELSE IF seed = "None"
    THEN EngNew(template_classes[cpp_type], minw, maxw)
    ELSE EngNewSeeded(template_classes[cpp_type], minw, maxw, seed)

\* a containment test that answers True for every key of the right type
contains_AlwaysTrue(e, element) ==
    LET c == EngCount(e, element).ret
    IN IF c.type = "raise" THEN c ELSE Bool(TRUE)

\* a containment test that answers False for every key of the right type
contains_AlwaysFalse(e, element) ==
    LET c == EngCount(e, element).ret
    IN IF c.type = "raise" THEN c ELSE Bool(FALSE)

\* element in self
contains(e, element) ==
    LET c == EngCount(e, element).ret
    IN IF c.type = "raise" THEN c
       ELSE Bool(c.type = "value" /\ c.v # 0)

\* self.min_weight <= weight <= self.max_weight
InRange(lo, weight, hi) == lo <= weight /\ weight <= hi

\* an out-of-range assignment that is dropped instead of raising
setitem_Silent(lo, hi, e, element, weight) ==
    IF InRange(lo, weight, hi)
    THEN LET c == contains(e, element)
         IN IF c.type = "raise" THEN Out(e, c)
            ELSE IF c.b THEN EngSetWeight(e, element, weight)
            ELSE EngInsert(e, element, weight)
    ELSE Out(e, None)

\* self[element] = weight
setitem(lo, hi, e, element, weight) ==
    IF InRange(lo, weight, hi)
    THEN LET c == contains(e, element)
         IN IF c.type = "raise" THEN Out(e, c)
            ELSE IF c.b THEN EngSetWeight(e, element, weight)
            ELSE EngInsert(e, element, weight)
    ELSE Out(e, Raise("ValueError"))

\* a Python int as a value: an integer element and a number are the same thing
PyInt(n) == [tag |-> "int", id |-> n]

\* lines 51-55: elements and weights as __init__ unpacks them
unpack(ew) ==
    LET its == ew.items
        ks  == [i \in 1..Len(its) |-> its[i][1]]
        ws  == [i \in 1..Len(its) |-> PyInt(its[i][2])]
    IN CASE ew.form = "pairs" ->
              IF Len(its) # 2
              THEN [exc |-> "ValueError", elements |-> <<>>, weights |-> <<>>]
              ELSE [exc |-> "", elements |-> <<ks[1], ws[1]>>,
                    weights |-> <<ks[2], ws[2]>>]
         [] ew.form = "two_short" ->
              [exc |-> "", elements |-> ks, weights |-> SubSeq(ws, 1, Len(ws) - 1)]
         [] OTHER -> [exc |-> "", elements |-> ks, weights |-> ws]

\* first_element is int: true of the class int itself only
is_int(v) == v.tag = "class int"

\* self[element] = weight for any two Python values: a weight that is no
\* number cannot be compared with the bounds
py_setitem(lo, hi, e, element, weight) ==
    IF weight.tag # "int" THEN Out(e, Raise("TypeError"))
    ELSE setitem(lo, hi, e, element, weight.id)

RECURSIVE fill(_, _, _, _, _, _)
\* lines 81-82: self[element] = weight over zip(elements, weights), from pair i
fill(lo, hi, e, elements, weights, i) ==
    IF i > Len(elements) \/ i > Len(weights) THEN Out(e, None)
    ELSE LET o == py_setitem(lo, hi, e, elements[i], weights[i])
         IN IF o.ret.type = "raise" THEN o
            ELSE fill(lo, hi, o.eng, elements, weights, i + 1)

\* __init__(min_weight, max_weight, elements_weights, seed) with elements
init_elements(minw, maxw, seed, ew) ==
    LET u == unpack(ew)
    IN IF u.exc # "" THEN Out(NoEngine, Raise(u.exc))
       ELSE IF Len(u.elements) = 0 \/ Len(u.weights) = 0
       THEN Out(NoEngine, Raise("StopIteration"))
       ELSE LET first_element == u.elements[1]
                first_weight  == u.weights[1]
                cpp_type      == IF is_int(first_element) THEN "int" ELSE "edge"
            IN IF Len(u.elements) # Len(u.weights)
               THEN Out(NoEngine, Raise("ValueError"))
               ELSE LET o == init(minw, maxw, seed, cpp_type)
                    IN IF o.ret.type = "raise" THEN o
                       ELSE LET f == py_setitem(minw, maxw, o.eng,
                                                first_element, first_weight)
                            IN IF f.ret.type = "raise" THEN f
                               ELSE fill(minw, maxw, f.eng, u.elements, u.weights, 1)

\* SamplableSet(min_weight, max_weight, elements_weights, seed, cpp_type)
construct(minw, maxw, ew, seed, cpp_type) ==
    IF ew.form = "none"
    THEN init(minw, maxw, seed, cpp_type)
    ELSE init_elements(minw, maxw, seed, ew)

\* a deletion that never reaches the engine
delitem_Forgets(e, element) == Out(e, None)

\* del self[element]
delitem(e, element) == EngErase(e, element)

\* self[element]: looks up the attribute get_weight on the wrapper object
getitem(e, element) ==
    IF "get_weight" \in BoundMethods
    THEN EngCount(e, element)
    ELSE Out(e, Raise("AttributeError"))

\* len(self)
len(e) == EngSize(e)

\* self.set_weight bound to the engine's insert
set_weight_BoundToInsert(e, element, weight) == EngInsert(e, element, weight)

\* self.insert, self.set_weight, self.erase: the engine's methods, set on the
\* wrapper object by setattr
insert(e, element, weight) == EngInsert(e, element, weight)

set_weight(e, element, weight) == EngSetWeight(e, element, weight)

erase(e, element) == EngErase(e, element)

\* the copy constructor of the engine class: a value of its own
EngCopy(e) == e

\* the class of the wrapper object
WrapperClass == "SamplableSet"

\* copy(): type(self._samplable_set)(self._samplable_set), an object of the
\* engine class of the set's element type
copy(e) == [class |-> e.kind, eng |-> EngCopy(e)]

\* c[element] = weight on the object copy() returned: only the wrapper class
\* defines __setitem__
copy_setitem(c, lo, hi, element, weight) ==
    IF c.class = WrapperClass
    THEN setitem(lo, hi, c.eng, element, weight)
    ELSE Out(c.eng, Raise("TypeError"))

\* c.insert(element, weight) and c.erase(element) on the object copy() returned
copy_insert(c, element, weight) == EngInsert(c.eng, element, weight)

copy_erase(c, element) == EngErase(c.eng, element)

\* a draw that erases what it drew
engine_sample_Erasing(e) ==
    {Out(IF r.type = "pair" THEN EngErase(e, r.key).eng ELSE e, r) :
        r \in EngSampleResults(e)}

\* the results one call self._samplable_set.sample() may produce
engine_sample(e) == {Out(e, r) : r \in EngSampleResults(e)}

\* a sample() that hands back a generator whatever n_samples is
sample_AlwaysGenerator(e, g, n, replace) ==
    IF replace # "unset"
    THEN {[eng |-> e, ret |-> Raise("TypeError"), gen |-> g]}
    ELSE {[eng |-> e, ret |-> Generator,
           gen |-> [active |-> TRUE, n |-> n, yielded |-> 0]]}

\* sample(n_samples=n) or sample(n_samples=n, replace=...): the signature takes
\* self and n_samples only, so any replace keyword is an unexpected argument
sample(e, g, n, replace) ==
    IF replace # "unset"
    THEN {[eng |-> e, ret |-> Raise("TypeError"), gen |-> g]}
    ELSE IF n = 1
    THEN {[eng |-> o.eng, ret |-> o.ret, gen |-> g] : o \in engine_sample(e)}
    ELSE {[eng |-> e, ret |-> Generator,
           gen |-> [active |-> TRUE, n |-> n, yielded |-> 0]]}

\* a generator that runs over range(n_samples + 1)
sample_generator_next_OneMore(e, g) ==
    IF g.yielded <= g.n
    THEN {[eng |-> o.eng, ret |-> o.ret, gen |-> [g EXCEPT !.yielded = @ + 1]] :
             o \in engine_sample(e)}
    ELSE {[eng |-> e, ret |-> Raise("StopIteration"), gen |-> g]}

\* next() on the generator made by sample_generator(n_samples)
sample_generator_next(e, g) ==
    IF g.yielded < g.n
    THEN {[eng |-> o.eng, ret |-> o.ret, gen |-> [g EXCEPT !.yielded = @ + 1]] :
             o \in engine_sample(e)}
    ELSE {[eng |-> e, ret |-> Raise("StopIteration"), gen |-> g]}

----------------------------------------------------------------------------
(* Actions: one per call a client makes *)

Init ==
    /\ obj = "none"
    /\ min_weight = 0
    /\ max_weight = 0
    /\ samplable_set = NoEngine
    /\ gen = NoGen
    /\ call = NoCall
    /\ result = None
    /\ pre = NoEngine
    /\ copied = NoCopy
    /\ atcall = {}

\* a method call on the live object that leaves the wrapper's own fields alone
Returns(c, o) ==
    /\ call' = c
    /\ pre' = samplable_set
    /\ samplable_set' = o.eng
    /\ result' = o.ret
    /\ UNCHANGED <<obj, min_weight, max_weight, copied>>

\* one construction is attempted; a failed one ends the run
New(minw, maxw, ew, seed, cpp_type) ==
    /\ obj = "none"
    /\ call.op = "none"
    /\ LET o == construct(minw, maxw, ew, seed, cpp_type)
       IN /\ call' = [NoCall EXCEPT !.op = "new", !.min = minw, !.max = maxw,
                                    !.seed = seed, !.cpp_type = cpp_type,
                                    !.elements_weights = ew]
          /\ pre' = samplable_set
          /\ result' = o.ret
          /\ IF o.ret.type = "raise"
             THEN UNCHANGED <<obj, min_weight, max_weight, samplable_set>>
             ELSE /\ obj' = "live"
                  /\ samplable_set' = o.eng
                  /\ max_weight' = maxw
                  /\ min_weight' = minw
    /\ UNCHANGED <<gen, copied, atcall>>

SetItem(element, weight) ==
    /\ obj = "live"
    /\ Returns([NoCall EXCEPT !.op = "setitem", !.key = element, !.weight = weight],
               setitem(min_weight, max_weight, samplable_set, element, weight))
    /\ UNCHANGED <<gen, atcall>>

DelItem(element) ==
    /\ obj = "live"
    /\ Returns([NoCall EXCEPT !.op = "delitem", !.key = element],
               delitem(samplable_set, element))
    /\ UNCHANGED <<gen, atcall>>

GetItem(element) ==
    /\ obj = "live"
    /\ Returns([NoCall EXCEPT !.op = "getitem", !.key = element],
               getitem(samplable_set, element))
    /\ UNCHANGED <<gen, atcall>>

Contains(element) ==
    /\ obj = "live"
    /\ Returns([NoCall EXCEPT !.op = "contains", !.key = element],
               Out(samplable_set, contains(samplable_set, element)))
    /\ UNCHANGED <<gen, atcall>>

Length ==
    /\ obj = "live"
    /\ Returns([NoCall EXCEPT !.op = "len"], len(samplable_set))
    /\ UNCHANGED <<gen, atcall>>

Sample(n, replace) ==
    /\ obj = "live"
    /\ \E o \in sample(samplable_set, gen, n, replace) :
          /\ Returns([NoCall EXCEPT !.op = "sample", !.n = n, !.replace = replace],
                     Out(o.eng, o.ret))
          /\ gen' = o.gen
    /\ UNCHANGED atcall

GenNext ==
    /\ obj = "live"
    /\ gen.active
    /\ \E o \in sample_generator_next(samplable_set, gen) :
          /\ Returns([NoCall EXCEPT !.op = "next", !.n = gen.n], Out(o.eng, o.ret))
          /\ gen' = o.gen
    /\ UNCHANGED atcall

Insert(element, weight) ==
    /\ obj = "live"
    /\ Returns([NoCall EXCEPT !.op = "insert", !.key = element, !.weight = weight],
               insert(samplable_set, element, weight))
    /\ UNCHANGED <<gen, atcall>>

SetWeight(element, weight) ==
    /\ obj = "live"
    /\ Returns([NoCall EXCEPT !.op = "set_weight", !.key = element, !.weight = weight],
               set_weight(samplable_set, element, weight))
    /\ UNCHANGED <<gen, atcall>>

Erase(element) ==
    /\ obj = "live"
    /\ Returns([NoCall EXCEPT !.op = "erase", !.key = element],
               erase(samplable_set, element))
    /\ UNCHANGED <<gen, atcall>>

\* a call on the object the last copy() returned; pre is that object before
OnCopy(c, o) ==
    /\ call' = [c EXCEPT !.on = "copy"]
    /\ pre' = copied.eng
    /\ copied' = [copied EXCEPT !.eng = o.eng]
    /\ result' = o.ret
    /\ UNCHANGED <<obj, min_weight, max_weight, samplable_set, gen, atcall>>

Copy ==
    /\ obj = "live"
    /\ call' = [NoCall EXCEPT !.op = "copy"]
    /\ pre' = samplable_set
    /\ copied' = copy(samplable_set)
    /\ result' = Object(copy(samplable_set).class)
    /\ UNCHANGED <<obj, min_weight, max_weight, samplable_set, gen, atcall>>

CopySetItem(element, weight) ==
    /\ copied.class # "none"
    /\ OnCopy([NoCall EXCEPT !.op = "setitem", !.key = element, !.weight = weight],
              copy_setitem(copied, min_weight, max_weight, element, weight))

CopyInsert(element, weight) ==
    /\ copied.class # "none"
    /\ OnCopy([NoCall EXCEPT !.op = "insert", !.key = element, !.weight = weight],
              copy_insert(copied, element, weight))

CopyErase(element) ==
    /\ copied.class # "none"
    /\ OnCopy([NoCall EXCEPT !.op = "erase", !.key = element],
              copy_erase(copied, element))

\* sample(n_samples=n), with the keys stored at the time of the call recorded
\* when the call hands back a generator
BatchSample(n) ==
    /\ obj = "live"
    /\ \E o \in sample(samplable_set, gen, n, "unset") :
          /\ Returns([NoCall EXCEPT !.op = "sample", !.n = n], Out(o.eng, o.ret))
          /\ gen' = o.gen
          /\ atcall' = IF o.ret = Generator THEN Live(samplable_set) ELSE atcall

Next ==
    \/ /\ obj = "none" /\ call.op = "none"
       /\ \E minw \in MinChoices, maxw \in MaxChoices, ew \in ElementsWeights,
             sd \in Seeds, t \in CppTypes :
             New(minw, maxw, ew, sd, t)
    \/ \E k \in Keys, w \in Weights : SetItem(k, w)
    \/ \E k \in Keys : DelItem(k)
    \/ \E k \in Keys : GetItem(k)
    \/ \E k \in Keys : Contains(k)
    \/ Length
    \/ \E n \in 0..MaxSamples, r \in {"unset", "True", "False"} : Sample(n, r)
    \/ GenNext

Spec == Init /\ [][Next]_vars

\* the calls that change a set, the engine methods on the object included
NextMethods ==
    \/ /\ obj = "none" /\ call.op = "none"
       /\ \E minw \in MinChoices, maxw \in MaxChoices, ew \in ElementsWeights,
             sd \in Seeds, t \in CppTypes :
             New(minw, maxw, ew, sd, t)
    \/ \E k \in Keys, w \in Weights : SetItem(k, w)
    \/ \E k \in Keys : DelItem(k)
    \/ \E k \in Keys, w \in Weights : Insert(k, w)
    \/ \E k \in Keys, w \in Weights : SetWeight(k, w)
    \/ \E k \in Keys : Erase(k)

SpecMethods == Init /\ [][NextMethods]_vars

\* a set, its copy, and calls on either of the two
NextCopy ==
    \/ /\ obj = "none" /\ call.op = "none"
       /\ \E minw \in MinChoices, maxw \in MaxChoices, ew \in ElementsWeights,
             sd \in Seeds, t \in CppTypes :
             New(minw, maxw, ew, sd, t)
    \/ \E k \in Keys, w \in Weights : SetItem(k, w)
    \/ \E k \in Keys : DelItem(k)
    \/ Copy
    \/ \E k \in Keys, w \in Weights : CopySetItem(k, w)
    \/ \E k \in Keys, w \in Weights : CopyInsert(k, w)
    \/ \E k \in Keys : CopyErase(k)

SpecCopy == Init /\ [][NextCopy]_vars

\* the weights assigned between a batch call and the reading of its results
BatchWeights == {2, MaxW}

\* batch sampling with assignments and deletions between the call and the
\* reading of its results
NextBatch ==
    \/ /\ obj = "none" /\ call.op = "none"
       /\ \E minw \in MinChoices, maxw \in MaxChoices, ew \in ElementsWeights,
             sd \in Seeds, t \in CppTypes :
             New(minw, maxw, ew, sd, t)
    \/ \E k \in Keys, w \in BatchWeights : SetItem(k, w)
    \/ \E k \in Keys : DelItem(k)
    \/ \E n \in 0..MaxSamples : BatchSample(n)
    \/ GenNext

SpecBatch == Init /\ [][NextBatch]_vars

----------------------------------------------------------------------------
(* What a client can observe of a set, through its public methods *)

size(e) == EngSize(e).ret.v

total_weight(e) == EngTotalWeight(e).ret.v

count(e, k) == EngCount(e, k).ret

\* the keys the engine of the live object accepts
LegalKeys == {k \in Keys : KeyMatches(samplable_set, k)}

Present(e, k) == count(e, k).type = "value"

\* size, total weight, membership and every stored weight agree
SameSet(e1, e2) ==
    /\ size(e1) = size(e2)
    /\ total_weight(e1) = total_weight(e2)
    /\ \A k \in LegalKeys : count(e1, k) = count(e2, k)

OthersKeep(e1, e2, key) == \A k \in LegalKeys \ {key} : count(e1, k) = count(e2, k)

----------------------------------------------------------------------------
(* Claims *)

\* C1: an indexed assignment s[key] = w with w below min_weight or above
\* max_weight raises ValueError, for absent and present keys alike, and leaves
\* size, total weight, membership and every stored weight as they were.
C1_OutOfRangeAssignmentRejected ==
    (call.op = "setitem" /\ (call.weight < min_weight \/ call.weight > max_weight))
        => /\ result = Raise("ValueError")
           /\ SameSet(pre, samplable_set)

\* an out-of-range assignment to a key that is stored has been rejected
C1_Witness ==
    /\ call.op = "setitem"
    /\ call.weight > max_weight
    /\ call.key \in LegalKeys
    /\ Present(pre, call.key)
    /\ size(pre) >= 2
    /\ result = Raise("ValueError")

C3_AssignPresentSetsWeight ==
    (/\ call.op = "setitem"
     /\ min_weight <= call.weight /\ call.weight <= max_weight
     /\ call.key \in LegalKeys
     /\ Present(pre, call.key))
        => /\ result = None
           /\ count(samplable_set, call.key) = Value(call.weight)
           /\ size(samplable_set) = size(pre)
           /\ total_weight(samplable_set)
                 = total_weight(pre) + call.weight - count(pre, call.key).v

\* a stored key has been given a weight of another bucket
C3_Witness ==
    /\ call.op = "setitem"
    /\ call.key \in LegalKeys
    /\ Present(pre, call.key)
    /\ result = None
    /\ size(pre) >= 2
    /\ bucket_for(pre, count(pre, call.key).v) # bucket_for(pre, call.weight)
    /\ count(samplable_set, call.key) = Value(call.weight)

\* C4: del s[key] for a stored key of weight w removes it: count(key) is the
\* absent sentinel, key in s is false, size drops by one, total weight drops by
\* w, and every other key keeps its weight.
C4_DeleteRemoves ==
    (call.op = "delitem" /\ call.key \in LegalKeys /\ Present(pre, call.key))
        => /\ result = None
           /\ count(samplable_set, call.key) = None
           /\ contains(samplable_set, call.key) = Bool(FALSE)
           /\ size(samplable_set) = size(pre) - 1
           /\ total_weight(samplable_set)
                 = total_weight(pre) - count(pre, call.key).v
           /\ OthersKeep(pre, samplable_set, call.key)

\* a key has been deleted from a set that held another one too
C4_Witness ==
    /\ call.op = "delitem"
    /\ call.key \in LegalKeys
    /\ Present(pre, call.key)
    /\ size(pre) >= 2
    /\ size(samplable_set) = size(pre) - 1

\* C5: sampling with replacement, by one sample() call or by taking results
\* from the generator of sample(n_samples=n), leaves size, total weight,
\* membership and every stored weight as they were.
C5_SamplingLeavesSetAlone ==
    (call.op \in {"sample", "next"} /\ call.replace = "unset")
        => SameSet(pre, samplable_set)

\* the second result has been taken from a generator over a non-empty set
C5_Witness ==
    /\ call.op = "next"
    /\ gen.yielded >= 2
    /\ result.type = "pair"
    /\ size(samplable_set) >= 2

\* C6: sample() on a non-empty set returns a (key, weight) pair of a stored key
\* and its current weight; on an empty set it returns None and does not raise.
C6_SampleReturnsStoredPairOrNone ==
    (call.op = "sample" /\ call.n = 1 /\ call.replace = "unset")
        => IF size(pre) = 0
           THEN result = None
           ELSE /\ result.type = "pair"
                /\ count(samplable_set, result.key) = Value(result.weight)

\* sample() has returned a pair from a set of two
C6_Witness ==
    /\ call.op = "sample" /\ call.n = 1 /\ call.replace = "unset"
    /\ size(pre) >= 2
    /\ result.type = "pair"

\* C7: one sample without replacement, sample(replace=False), on a non-empty
\* set returns a stored (key, weight) pair and removes it: the key is absent
\* afterwards, size has dropped by one and total weight by that weight; on an
\* empty set it returns None and changes nothing.
C7_DestructiveSampleRemovesDrawn ==
    (call.op = "sample" /\ call.n = 1 /\ call.replace = "False")
        => IF size(pre) = 0
           THEN result = None /\ SameSet(pre, samplable_set)
           ELSE /\ result.type = "pair"
                /\ count(pre, result.key) = Value(result.weight)
                /\ count(samplable_set, result.key) = None
                /\ size(samplable_set) = size(pre) - 1
                /\ total_weight(samplable_set) = total_weight(pre) - result.weight

\* C8: a batch sample of n results, with either value of the replace flag and
\* for any set size, is a sequence of exactly n results: the call hands back
\* the sequence, and the sequence ends only after its n-th result.
C8_BatchYieldsExactlyN ==
    /\ (call.op = "sample" /\ call.replace \in {"True", "False"} /\ call.n # 1)
          => (result = Generator /\ gen.n = call.n /\ gen.yielded = 0)
    /\ (call.op = "next" /\ result = Raise("StopIteration"))
          => gen.yielded = gen.n

\* C9: repeated destructive sampling drains the set: every draw from a set of
\* M > 0 elements is non-empty and leaves M - 1, so that M draws empty it, and
\* a draw is the empty sentinel exactly when nothing is left.
C9_RepeatedDestructiveSamplingDrains ==
    (call.op = "sample" /\ call.n = 1 /\ call.replace = "False")
        => /\ size(samplable_set) = (IF size(pre) = 0 THEN 0 ELSE size(pre) - 1)
           /\ (result = None) <=> (size(pre) = 0)
           /\ result.type \in {"None", "pair"}

\* C10: SamplableSet(min_weight, max_weight) with min_weight <= 0, max_weight
\* not finite or min_weight >= max_weight raises a range error, and no set
\* exists afterwards: neither the engine object nor a field of the wrapper.
\* With elements_weights given as well the construction fails too and leaves
\* no set, with the error of whatever fails first.
C10_BadBoundsRejected ==
    (/\ call.op = "new"
     /\ call.cpp_type \in DOMAIN template_classes
     /\ (call.min <= 0 \/ ~IsFinite(call.max) \/ call.min >= call.max))
        => /\ result.type = "raise"
           /\ call.elements_weights.form = "none" => result = Raise("RangeError")
           /\ obj = "none"
           /\ samplable_set = NoEngine
           /\ min_weight = 0 /\ max_weight = 0

\* a seeded construction with positive, finite, inverted bounds has failed
C10_Witness ==
    /\ call.op = "new"
    /\ call.elements_weights.form = "none"
    /\ call.seed = "given"
    /\ call.min > call.max /\ call.max > 0
    /\ result = Raise("RangeError")
    /\ obj = "none"

\* the keys and the weights a bulk construction was given
RECURSIVE SumOfWeights(_, _)
SumOfWeights(items, i) ==
    IF i > Len(items) THEN 0 ELSE items[i][2] + SumOfWeights(items, i + 1)

OneVariant(items) == \A i, j \in 1..Len(items) : items[i][1].tag = items[j][1].tag

\* C12: construction from a mapping or from an iterable of (key, weight) pairs
\* with in-bounds weights and keys of one variant yields a set that holds every
\* supplied key with its supplied weight, whose size is the number of distinct
\* keys and whose total weight is the sum of the weights.
C12_BulkConstructionHoldsAll ==
    LET items == call.elements_weights.items
    IN (/\ call.op = "new"
        /\ call.elements_weights.form \in {"dict", "pairs"}
        /\ ValidBounds(call.min, call.max)
        /\ OneVariant(items)
        /\ \A i \in 1..Len(items) : call.min <= items[i][2] /\ items[i][2] <= call.max)
           => /\ obj = "live"
              /\ \A i \in 1..Len(items) :
                    count(samplable_set, items[i][1]) = Value(items[i][2])
              /\ size(samplable_set) = Len(items)
              /\ total_weight(samplable_set) = SumOfWeights(items, 1)

\* C13: s[key] returns the weight of a stored key and None for a key that is
\* not stored; it never raises and never changes the set.
C13_IndexedGetReturnsWeight ==
    (call.op = "getitem" /\ call.key \in LegalKeys)
        => /\ result = count(pre, call.key)
           /\ SameSet(pre, samplable_set)

\* C14: a set constructed without elements has no key variant; the first key
\* assigned fixes the variant to that key's; afterwards the variant never
\* changes and assigning a key of another variant fails and changes nothing.
C14_VariantFixedByFirstKey ==
    /\ (call.op = "new" /\ call.elements_weights.form = "none" /\ obj = "live")
          => samplable_set.kind = "none"
    /\ (/\ call.op = "setitem"
        /\ pre.kind = "none"
        /\ min_weight <= call.weight /\ call.weight <= max_weight)
          => (result = None /\ samplable_set.kind = call.key.tag)
    /\ (call.op = "setitem" /\ pre.kind # "none")
          => /\ samplable_set.kind = pre.kind
             /\ call.key.tag # pre.kind
                   => (result.type = "raise" /\ SameSet(pre, samplable_set))

\* C15: erase(key), del s[key] and set_weight(key, w) on a key that is not
\* stored fail and leave size, total weight and all contents as they were; the
\* failure is the key-not-found error for a key of the set's type (and, for
\* set_weight, a weight within the bounds); set_weight never inserts.
C15_AbsentKeyRejected ==
    (/\ call.op \in {"delitem", "erase", "set_weight"}
     /\ ~Present(pre, call.key))
        => /\ result.type = "raise"
           /\ SameSet(pre, samplable_set)
           /\ ~Present(samplable_set, call.key)
           /\ (/\ call.key \in LegalKeys
               /\ call.op = "set_weight" => InBounds(pre, call.weight))
                 => result = Raise("KeyNotFoundError")

\* set_weight with a legal weight on a missing key of a non-empty set has failed
C15_Witness ==
    /\ call.op = "set_weight"
    /\ call.key \in LegalKeys
    /\ ~Present(pre, call.key)
    /\ InBounds(pre, call.weight)
    /\ size(pre) >= 1
    /\ result = Raise("KeyNotFoundError")

\* the weights stored in an engine
StoredWeights(e) == {EntryOf(e, k).weight : k \in Live(e)}

\* C16: after any sequence of public calls (construction with or without
\* elements, indexed assignment and deletion, insert, set_weight and erase on
\* the object) every stored weight w satisfies min_weight <= w <= max_weight.
C16_StoredWeightsWithinBounds ==
    obj = "live"
        => \A w \in StoredWeights(samplable_set) : min_weight <= w /\ w <= max_weight

\* insert on the object with a weight above max_weight has been refused, and a
\* set_weight or insert within the bounds had gone through before
C16_Witness ==
    /\ obj = "live"
    /\ call.op \in {"insert", "set_weight"}
    /\ call.key \in LegalKeys
    /\ call.weight > max_weight
    /\ result = Raise("RangeError")
    /\ size(samplable_set) >= 1
    /\ \E w \in StoredWeights(samplable_set) : w = max_weight

RECURSIVE SumOfEntries(_, _)
\* the sum of the weights of the entries of a bucket, from slot i
SumOfEntries(bucket, i) ==
    IF i > Len(bucket) THEN 0 ELSE bucket[i].weight + SumOfEntries(bucket, i + 1)

RECURSIVE SumOfSums(_, _)
\* the sum of the bucket sums, from bucket b
SumOfSums(e, b) == IF b > Len(e.sums) THEN 0 ELSE e.sums[b] + SumOfSums(e, b + 1)

RECURSIVE NumEntries(_, _)
\* the number of entries in the buckets, from bucket b
NumEntries(e, b) ==
    IF b > Len(e.buckets) THEN 0 ELSE Len(e.buckets[b]) + NumEntries(e, b + 1)

\* the slots whose entry has key k
EntriesOf(e, k) ==
    {p \in (DOMAIN e.buckets) \X (1..e.n) :
        p[2] <= Len(e.buckets[p[1]]) /\ e.buckets[p[1]][p[2]].key = k}

\* C17: in every state reached by insert, erase, set_weight (in place or
\* migrating to another bucket), indexed assignment and deletion, and failed
\* calls, total_weight() is the sum of the bucket sums, each bucket sum is the
\* sum of the weights of its entries, and size() is the number of live keys,
\* each of which has exactly one entry.
C17_SumsAndSizeConsistent ==
    obj = "live"
        => LET e == samplable_set
           IN /\ total_weight(e) = SumOfSums(e, 1)
              /\ \A b \in DOMAIN e.buckets : e.sums[b] = SumOfEntries(e.buckets[b], 1)
              /\ size(e) = Cardinality(Live(e))
              /\ size(e) = NumEntries(e, 1)
              /\ \A k \in Keys :
                    Cardinality(EntriesOf(e, k)) = (IF k \in Live(e) THEN 1 ELSE 0)

\* set_weight has moved a key to another bucket of a set of two keys
C17_Witness ==
    /\ call.op = "set_weight"
    /\ result = None
    /\ size(pre) >= 2
    /\ pre.index[call.key].b # samplable_set.index[call.key].b
    /\ Len(pre.buckets[pre.index[call.key].b]) >= 2

RECURSIVE Pow2(_)
Pow2(n) == IF n = 0 THEN 1 ELSE 2 * Pow2(n - 1)

\* the range stated for bucket b (0-based): (min*2^b, min*2^(b+1)], closed
\* below for the lowest bucket
InStatedRange(e, b, w) ==
    /\ IF b = 0 THEN e.min_weight <= w ELSE e.min_weight * Pow2(b) < w
    /\ w <= e.min_weight * Pow2(b + 1)

\* the range floor(log2(w / min_weight)) = b describes: [min*2^b, min*2^(b+1))
InFloorRange(e, b, w) ==
    /\ e.min_weight * Pow2(b) <= w
    /\ w < e.min_weight * Pow2(b + 1)

\* the weights of the configured range the model can hold
RangeWeights(e) == {w \in Weights : InBounds(e, w)}

C19_IndexMatchesSlots ==
    obj = "live"
        => LET e == samplable_set
           IN /\ \A k \in Live(e) :
                    /\ e.index[k].b \in DOMAIN e.buckets
                    /\ e.index[k].slot \in 1..Len(e.buckets[e.index[k].b])
                    /\ EntryOf(e, k).key = k
              /\ \A b \in DOMAIN e.buckets : \A i \in 1..Len(e.buckets[b]) :
                    /\ e.buckets[b][i].key \in Live(e)
                    /\ e.index[e.buckets[b][i].key] = [b |-> b, slot |-> i]
              /\ Live(e) \subseteq LegalKeys
              /\ \A k \in Live(e) : Present(e, k)

\* a removal has moved the last entry of a bucket into the freed slot
C19_Witness ==
    /\ call.op \in {"delitem", "erase"}
    /\ result = None
    /\ \E k \in Live(samplable_set) :
          /\ pre.index[k].b = samplable_set.index[k].b
          /\ pre.index[k].slot # samplable_set.index[k].slot
          /\ EntryOf(samplable_set, k).key = k

\* C11: copy() returns a set of the same class, hence with the same
\* operations, that has the size, total weight, weight bounds and contents of
\* the original: an assignment c[key] = w on the copy does what it does on a set
\* of these contents; and a call on one of the two leaves the other as it was.
C11_CopyIsEqualIndependentSet ==
    [][/\ call'.op = "copy"
          => /\ copied'.class = WrapperClass
             /\ SameSet(copied'.eng, samplable_set')
             /\ copied'.eng.min_weight = min_weight'
             /\ copied'.eng.max_weight = max_weight'
       /\ (call'.on = "copy" /\ call'.op = "setitem")
          => /\ result' = setitem(min_weight, max_weight, copied.eng,
                                  call'.key, call'.weight).ret
             /\ copied'.eng = setitem(min_weight, max_weight, copied.eng,
                                      call'.key, call'.weight).eng
       /\ call'.on = "copy" => samplable_set' = samplable_set
       /\ (call'.on = "self" /\ call'.op # "copy") => copied' = copied]_vars

\* C20 as stated: the results of a batch call sample(n_samples=n) are fixed when
\* the call is made, whatever is assigned or deleted before a result is read:
\* every result is a pair whose key was stored at the time of the call, or the
\* empty sentinel when nothing was stored then.
C20_BatchFixedAtCall ==
    (call.op = "next" /\ result.type # "raise")
        => IF atcall = {}
           THEN result = None
           ELSE result.type = "pair" /\ result.key \in atcall

\* C20, amended: sample(n_samples=n) with n # 1 hands back a lazy generator
\* without drawing; each of its at most n results is drawn when it is read and
\* is a (key, weight) pair stored in the set at that moment, or None when the
\* set is empty at that moment; reading a result does not change the set.
C20_BatchDrawnWhenRead ==
    /\ (call.op = "sample" /\ call.n # 1 /\ call.replace = "unset")
          => /\ result = Generator
             /\ gen = [active |-> TRUE, n |-> call.n, yielded |-> 0]
             /\ SameSet(pre, samplable_set)
    /\ call.op = "next"
          => /\ gen.yielded <= gen.n
             /\ SameSet(pre, samplable_set)
             /\ \/ result = Raise("StopIteration") /\ gen.yielded = gen.n
                \/ result = None /\ size(pre) = 0
                \/ /\ result.type = "pair"
                   /\ count(pre, result.key) = Value(result.weight)

\* a result read from the generator is a key that was assigned after the batch
\* call had returned
C20_Witness ==
    /\ call.op = "next"
    /\ result.type = "pair"
    /\ result.key \notin atcall
    /\ atcall # {}
    /\ gen.yielded = gen.n

====
